---- MODULE Spec2Model ----
(***************************************************************************)
(* dbuild: building Debian packages in disposable docker containers.       *)
(*                                                                         *)
(* The model follows src/dbuild/__init__.py: one run of main() (phase      *)
(* source, then phase binary) or one direct call of docker_build().  The   *)
(* docker engine, the file system and the container's process are the      *)
(* environment: the engine's build stream, the container's log lines and   *)
(* the process's exit code are drawn from small sets.  Engine calls other  *)
(* than the image build are taken to return normally.                      *)
(***************************************************************************)
EXTENDS Integers, Sequences, FiniteSets, TLC

VARIABLES
    entry,        \* "main": main() runs both phases; "docker_build": one direct call
    args,         \* the keyword arguments of the run (never mutated)
    fs,           \* which optional files exist under build_dir: [repos, keys]
    build_type,   \* docker_build's build_type argument of the current call
    phaseNo,      \* number of docker_build calls entered so far
    pc,           \* position of the single thread of control
    command,      \* docker_build local: the in-container command, a sequence of segments
    cwd,          \* docker_build local: the container's working directory
    clients,      \* number of engine clients opened
    scratch,      \* scratch directories (mkdtemp) that exist
    docker_path,  \* docker_build local: its scratch directory (0: none yet)
    dirsMade,     \* number of scratch directories ever created
    buildStream,  \* the engine's image-build stream of the current build
    lineIdx,      \* number of lines of buildStream read by build_image
    engine,       \* containers of the engine: sequence indexed by container id
    container,    \* docker_build local: its container's id (0: none yet)
    logIdx,       \* number of container log lines read by container_logs
    logsClosed,   \* the container's log stream has ended
    rv,           \* docker_build local: wait's return value (-1: not yet)
    build_rv,     \* docker_build local: "unset", "True" or "False"
    exc,          \* exception in flight or raised by the current call
    result,       \* outcome of the current docker_build call: "none", "True" or an exception
    printed,      \* what the current docker_build call printed, in order
    calls,        \* history: engine and file-system calls of the run, in order
    errLines,     \* the labeled error lines main printed
    built,        \* history: what each run of the command builder produced
    sh,           \* an execution of the built command by bash -c in the container
    mainResult    \* main's outcome: "none", "True", "False" or an uncaught exception

vars == <<entry, args, fs, build_type, phaseNo, pc, command, cwd, clients,
          scratch, docker_path, dirsMade, buildStream, lineIdx, engine,
          container, logIdx, logsClosed, rv, build_rv, exc, result, printed,
          calls, errLines, built, sh, mainResult>>

(***************************************************************************)
(* Bounds of the environment.                                              *)
(***************************************************************************)
MaxBuildLines == 2   \* longest image-build stream
MaxLogLines == 2     \* most log lines a container produces
MaxExit == 1         \* exit codes range over 0..MaxExit
MaxFailures == 2     \* most commands of one shell execution that fail
MaxCalls == 2        \* most calls of docker_build by one caller

None == "None"
NoExc == [type |-> "none", msg |-> None, detail |-> None, mentions |-> {}]

\* Lines of the engine's build stream (decode=True yields dicts).
BuildLines ==
    { [stream |-> "step"],
      [status |-> "pulling"],
      [error |-> "e1", errorDetails |-> "d1"],
      [error |-> "e2"],
      [stream |-> "last", error |-> "e3", errorDetails |-> "d3"] }

RECURSIVE SeqsUpTo(_, _)
SeqsUpTo(S, n) ==
    IF n = 0 THEN { <<>> }
    ELSE LET shorter == SeqsUpTo(S, n - 1)
         IN  shorter \cup { Append(s, x) : s \in { t \in shorter : Len(t) = n - 1 }, x \in S }

BuildStreams == SeqsUpTo(BuildLines, MaxBuildLines)

\* Raw log lines of a container: bytes that are valid UTF-8 or not.
LogLines == { [text |-> "out", utf8 |-> TRUE], [text |-> "\\xff", utf8 |-> FALSE] }

ExitCodes == 0 .. MaxExit

BuildTypes == { "source", "binary", "deb" }

\* build_owner: {} is None (unset), {uid} is a uid given by the caller.
Owners == { {}, {0}, {1000} }

Parallels == { 1, 4 }

Seg(s, a) == [seg |-> s, arg |-> a]

\* The connectives of the command text: ' && ' and ';'.
And == Seg("&&", 0)

Semi == Seg(";", 0)

Call(op, cid, force) ==
    [op |-> op, phase |-> build_type, cid |-> cid, force |-> force,
     timestamps |-> FALSE, ret |-> -1]

(***************************************************************************)
(* Command Builder: lines 128-157 of docker_build.                         *)
(***************************************************************************)
\* Python truth value of build_owner (line 156): None and 0 are false.
Truthy(owner) == owner # {} /\ owner # {0}

\* Mutant of Parallel: main leaves the binary phase at the default too.
ParallelDefault ==
    IF entry = "main" THEN 1 ELSE args.parallel

\* docker_build's parallel parameter: main passes it to the binary phase only.
Parallel ==
    IF entry = "main" /\ build_type = "source" THEN 1 ELSE args.parallel

\* Mutant of Prefix: the extra repositories are copied before the source
\* list is truncated.
PrefixCopyFirst(nds, repos, keys) ==
    (IF repos THEN << Seg("cp repos sources.list.d", 0), And >> ELSE << >>)
    \o (IF nds THEN << Seg("> /etc/apt/sources.list", 0), And >> ELSE << >>)
    \o (IF keys THEN << Seg("apt-key add", 0), And >> ELSE << >>)
    \o << Seg("export DEBIAN_FRONTEND=noninteractive", 0), Semi,
          Seg("apt-get -y update", 0), And,
          Seg("apt-get -y dist-upgrade", 0), And >>

\* Lines 130-141: the optional steps, each followed by ' && ', and the
\* text 'export DEBIAN_FRONTEND=noninteractive; apt-get -y update &&
\* apt-get -y dist-upgrade && '.
Prefix(nds, repos, keys) ==
    (IF nds THEN << Seg("> /etc/apt/sources.list", 0), And >> ELSE << >>)
    \o (IF repos THEN << Seg("cp repos sources.list.d", 0), And >> ELSE << >>)
    \o (IF keys THEN << Seg("apt-key add", 0), And >> ELSE << >>)
    \o << Seg("export DEBIAN_FRONTEND=noninteractive", 0), Semi,
          Seg("apt-get -y update", 0), And,
          Seg("apt-get -y dist-upgrade", 0), And >>

\* Lines 143-151: the build step of the phase.
BuildStep(bt, par) ==
    IF bt = "source"
    THEN << Seg("dpkg-buildpackage -S", 0) >>
    ELSE << Seg("dpkg-source -x", 0), And, Seg("cd pkgbuild", 0), And,
            Seg("pbuilder-satisfydepends", 0), And,
            Seg("dpkg-buildpackage -b -j", par) >>

\* Lines 156-157: ' ; rv=$? ; chown -R <owner> /build ; exit $rv'.
OwnerSuffix(owner) ==
    IF Truthy(owner)
    THEN << Semi, Seg("rv=$?", 0), Semi,
            Seg("chown -R", CHOOSE u \in owner : TRUE), Semi,
            Seg("exit $rv", 0) >>
    ELSE << >>

\* Mutant of KnownBuildType: the else branch of line 152 is missing.
KnownBuildTypeNoElse(bt) == TRUE

KnownBuildType(bt) == bt \in { "source", "binary" }

\* Mutant of Command: the command text is kept from one call to the next.
CommandAccumulates(bt, par, nds, repos, keys, owner) ==
    (IF built = << >> THEN << >> ELSE built[Len(built)].command \o << And >>)
    \o Prefix(nds, repos, keys) \o BuildStep(bt, par) \o OwnerSuffix(owner)

\* Lines 128-157: the command text, built left to right.
Command(bt, par, nds, repos, keys, owner) ==
    Prefix(nds, repos, keys) \o BuildStep(bt, par) \o OwnerSuffix(owner)

Cwd(bt) == IF bt = "source" THEN "/build/source" ELSE "/build"

(***************************************************************************)
(* The decision of lines 192-215.                                          *)
(***************************************************************************)
\* Line 192: the build succeeded iff wait returned 0.
BuildRv(code) == IF code = 0 THEN "True" ELSE "False"

\* Mutants of ShouldRemove: the flag alone decides; every container is
\* removed; the flag is ignored.
ShouldRemoveFlagOnly(code, force_rm) == force_rm

ShouldRemoveAlways(code, force_rm) == TRUE

ShouldRemoveOnSuccessOnly(code, force_rm) == code = 0

\* Lines 192-206: the container is removed on success, and on failure
\* only when force_rm is set.
ShouldRemove(code, force_rm) == code = 0 \/ force_rm

\* Lines 193-205: the message printed with the decision.
DecisionLine(code, force_rm) ==
    IF code = 0 THEN "Build successful, removing container"
    ELSE IF force_rm THEN "Build failed, Removing container"
    ELSE "Build failed, keeping container"

\* Mutant of PhaseOutcome: a failed build returns its build_rv.
PhaseOutcomeReturnsFalse(brv, bt) == brv

\* Lines 208-215: what the call returns or raises.
PhaseOutcome(brv, bt) ==
    IF brv = "True" THEN "True"
    ELSE IF bt = "source" THEN "DbuildSourceBuildFailedException"
    ELSE IF bt = "binary" THEN "DbuildBinaryBuildFailedException"
    ELSE "None"

\* bytes.decode('utf-8') of line 187: defined on valid UTF-8 only.
Decodes(l) == l.utf8

\* No execution of the command is being followed.
NotRun == [ran |-> FALSE, fails |-> {}, code |-> -1, executed |-> {}]

(***************************************************************************)
(* Initial states.                                                         *)
(***************************************************************************)
Args ==
    [ force_rm : BOOLEAN, build_owner : Owners, parallel : Parallels,
      no_default_sources : BOOLEAN, include_timestamps : BOOLEAN ]

Init ==
    /\ entry \in { "main", "docker_build" }
    /\ args \in Args
    /\ fs \in [ repos : BOOLEAN, keys : BOOLEAN ]
    /\ build_type \in (IF entry = "main" THEN { "none" } ELSE BuildTypes)
    /\ phaseNo = (IF entry = "main" THEN 0 ELSE 1)
    /\ pc = (IF entry = "main" THEN "main" ELSE "docker_build")
    /\ command = << >>
    /\ cwd = None
    /\ clients = 0
    /\ scratch = {}
    /\ docker_path = 0
    /\ dirsMade = 0
    /\ buildStream = << >>
    /\ lineIdx = 0
    /\ engine = << >>
    /\ container = 0
    /\ logIdx = 0
    /\ logsClosed = FALSE
    /\ rv = -1
    /\ build_rv = "unset"
    /\ exc = NoExc
    /\ result = "none"
    /\ printed = << >>
    /\ calls = << >>
    /\ errLines = << >>
    /\ built = << >>
    /\ sh = NotRun
    /\ mainResult = "none"

(***************************************************************************)
(* docker_build, one action per step.                                      *)
(***************************************************************************)
Locals == <<command, cwd, docker_path, buildStream, lineIdx, container,
            logIdx, logsClosed, rv, build_rv, exc, printed>>

Run == <<entry, args, fs>>

\* Lines 128-157: the command and the working directory; an unknown
\* build_type raises before anything else is done.
BuildCommand ==
    /\ pc = "docker_build"
    /\ IF KnownBuildType(build_type)
       THEN /\ command' = Command(build_type, Parallel, args.no_default_sources,
                                  fs.repos, fs.keys, args.build_owner)
            /\ cwd' = Cwd(build_type)
            /\ built' = Append(built,
                   [phase |-> build_type, fs |-> fs, parallel |-> Parallel,
                    cwd |-> Cwd(build_type),
                    command |-> Command(build_type, Parallel,
                                        args.no_default_sources, fs.repos,
                                        fs.keys, args.build_owner)])
            /\ pc' = "client"
            /\ UNCHANGED <<exc, result>>
       ELSE /\ exc' = [type |-> "DbuildBuildFailedException",
                       msg |-> "Unknown build_type", detail |-> None,
                       mentions |-> {}]
            /\ result' = "DbuildBuildFailedException"
            /\ pc' = "return"
            /\ UNCHANGED <<command, cwd, built>>
    /\ UNCHANGED <<Run, sh, build_type, phaseNo, clients, scratch, docker_path,
                   dirsMade, buildStream, lineIdx, engine, container, logIdx,
                   logsClosed, rv, build_rv, printed, calls, errLines,
                   mainResult>>

\* Lines 159-160: open the engine client and announce the build.
OpenClient ==
    /\ pc = "client"
    /\ clients' = clients + 1
    /\ printed' = Append(printed, "Starting Package Build")
    /\ calls' = Append(calls, Call("Client", 0, FALSE))
    /\ pc' = "mkdtemp"
    /\ UNCHANGED <<Run, built, sh, build_type, phaseNo, command, cwd, scratch,
                   docker_path, dirsMade, buildStream, lineIdx, engine,
                   container, logIdx, logsClosed, rv, build_rv, exc, result,
                   errLines, mainResult>>

\* Line 164: the scratch directory of the build context.
Mkdtemp ==
    /\ pc = "mkdtemp"
    /\ dirsMade' = dirsMade + 1
    /\ docker_path' = dirsMade + 1
    /\ scratch' = scratch \cup { dirsMade + 1 }
    /\ calls' = Append(calls, Call("mkdtemp", 0, FALSE))
    /\ pc' = "create_dockerfile"
    /\ UNCHANGED <<Run, built, sh, build_type, phaseNo, command, cwd, clients,
                   buildStream, lineIdx, engine, container, logIdx,
                   logsClosed, rv, build_rv, exc, result, printed, errLines,
                   mainResult>>

\* Line 167 (create_dockerfile, lines 75-93): renders the Dockerfile and
\* copies the scripts, or raises whatever the template engine or the file
\* system raises.
CreateDockerfile ==
    /\ pc = "create_dockerfile"
    /\ \E ok \in BOOLEAN :
          IF ok
          THEN /\ pc' = "build_image"
               /\ exc' = exc
          ELSE /\ pc' = "finally"
               /\ exc' = [type |-> "OSError", msg |-> "create_dockerfile",
                          detail |-> None, mentions |-> {}]
    /\ UNCHANGED <<Run, built, sh, build_type, phaseNo, command, cwd, clients, scratch,
                   docker_path, dirsMade, buildStream, lineIdx, engine,
                   container, logIdx, logsClosed, rv, build_rv, result,
                   printed, calls, errLines, mainResult>>

\* Lines 25-26: the first advance of the generator calls the engine's build,
\* which answers with a finite stream of lines.
StartBuild ==
    /\ pc = "build_image"
    /\ \E s \in BuildStreams : buildStream' = s
    /\ lineIdx' = 0
    /\ calls' = Append(calls, Call("build", 0, FALSE))
    /\ pc' = "build_loop"
    /\ UNCHANGED <<Run, built, sh, build_type, phaseNo, command, cwd, clients, scratch,
                   docker_path, dirsMade, engine, container, logIdx,
                   logsClosed, rv, build_rv, exc, result, printed, errLines,
                   mainResult>>

HasKey(line, k) == k \in DOMAIN line

\* dict.get of line 30: the value, or None when the key is absent.
Get(line, k) == IF HasKey(line, k) THEN line[k] ELSE None

\* Lines 27-28: what build_image yields for a line of the stream.
Yields(line) == IF HasKey(line, "stream") THEN << line.stream >> ELSE << >>

\* Mutant of Raises: 'elif' for the second test of the line.
RaisesElif(line) == HasKey(line, "error") /\ ~HasKey(line, "stream")

\* Lines 29-30: whether build_image raises at a line of the stream.
Raises(line) == HasKey(line, "error")

\* Line 30: the exception build_image raises at an error-bearing line.
BuildError(line) ==
    [type |-> "DbuildDockerBuildFailedException", msg |-> line.error,
     detail |-> Get(line, "errorDetails"), mentions |-> {}]

\* Mutant of BuildLoop: the generator is not drained.
BuildLoopNotDrained ==
    /\ pc = "build_loop"
    /\ pc' = "finally"
    /\ UNCHANGED <<Run, built, sh, build_type, phaseNo, command, cwd, clients, scratch,
                   docker_path, dirsMade, buildStream, lineIdx, engine,
                   container, logIdx, logsClosed, rv, build_rv, exc, result,
                   printed, calls, errLines, mainResult>>

\* Lines 25-30 and 169-170: one turn of the loop over the build stream.  The
\* line is read, its 'stream' text is yielded and printed, and an 'error'
\* raises; the end of the stream ends the loop.
BuildLoop ==
    /\ pc = "build_loop"
    /\ IF lineIdx = Len(buildStream)
       THEN /\ pc' = "finally"
            /\ UNCHANGED <<lineIdx, printed, exc>>
       ELSE LET line == buildStream[lineIdx + 1]
            IN  /\ lineIdx' = lineIdx + 1
                /\ printed' = printed \o Yields(line)
                /\ IF Raises(line)
                   THEN /\ exc' = BuildError(line)
                        /\ pc' = "finally"
                   ELSE /\ exc' = exc
                        /\ pc' = "build_loop"
    /\ UNCHANGED <<Run, built, sh, build_type, phaseNo, command, cwd, clients, scratch,
                   docker_path, dirsMade, buildStream, engine, container,
                   logIdx, logsClosed, rv, build_rv, result, calls, errLines,
                   mainResult>>

\* Mutant of Finally: the directory is removed after the try block only,
\* without a finally clause.
FinallyOnSuccessOnly ==
    /\ pc = "finally"
    /\ IF exc.type = "none"
       THEN /\ scratch' = scratch \ { docker_path }
            /\ calls' = Append(calls, Call("rmtree", 0, FALSE))
            /\ pc' = "create_container"
            /\ result' = result
       ELSE /\ pc' = "return"
            /\ result' = exc.type
            /\ UNCHANGED <<scratch, calls>>
    /\ UNCHANGED <<Run, built, sh, build_type, phaseNo, command, cwd, clients,
                   docker_path, dirsMade, buildStream, lineIdx, engine,
                   container, logIdx, logsClosed, rv, build_rv, exc, printed,
                   errLines, mainResult>>

\* Lines 171-172: the finally clause removes the scratch directory on every
\* way out of the try block, and an exception in flight goes on.
Finally ==
    /\ pc = "finally"
    /\ scratch' = scratch \ { docker_path }
    /\ calls' = Append(calls, Call("rmtree", 0, FALSE))
    /\ IF exc.type = "none"
       THEN /\ pc' = "create_container"
            /\ result' = result
       ELSE /\ pc' = "return"
            /\ result' = exc.type
    /\ UNCHANGED <<Run, built, sh, build_type, phaseNo, command, cwd, clients,
                   docker_path, dirsMade, buildStream, lineIdx, engine,
                   container, logIdx, logsClosed, rv, build_rv, exc, printed,
                   errLines, mainResult>>

(***************************************************************************)
(* Container lifecycle: lines 174-206.                                     *)
(***************************************************************************)
\* Mutant of CreateContainer: a container of the run is used again.
CreateContainerReuse ==
    /\ pc = "create_container"
    /\ IF engine = << >>
       THEN /\ engine' = Append(engine, [state |-> "created", code |-> -1,
                                         phase |-> build_type,
                                         command |-> command, cwd |-> cwd])
            /\ container' = 1
       ELSE /\ engine' = [engine EXCEPT ![1].state = "created"]
            /\ container' = 1
    /\ calls' = Append(calls, Call("create_container", 1, FALSE))
    /\ printed' = Append(printed, "container")
    /\ pc' = "start_container"
    /\ UNCHANGED <<Run, built, sh, build_type, phaseNo, command, cwd, clients,
                   scratch, docker_path, dirsMade, buildStream, lineIdx,
                   logIdx, logsClosed, rv, build_rv, exc, result, errLines,
                   mainResult>>

\* Lines 174-177 (create_container, lines 33-48): a new container of the
\* engine, not started.
CreateContainer ==
    /\ pc = "create_container"
    /\ engine' = Append(engine, [state |-> "created", code |-> -1,
                                 phase |-> build_type, command |-> command,
                                 cwd |-> cwd])
    /\ container' = Len(engine) + 1
    /\ calls' = Append(calls, Call("create_container", Len(engine) + 1, FALSE))
    /\ printed' = Append(printed, "container")
    /\ pc' = "start_container"
    /\ UNCHANGED <<Run, built, sh, build_type, phaseNo, command, cwd, clients, scratch,
                   docker_path, dirsMade, buildStream, lineIdx, logIdx,
                   logsClosed, rv, build_rv, exc, result, errLines,
                   mainResult>>

\* Line 179 (start_container, lines 51-54): does not block.
StartContainer ==
    /\ pc = "start_container"
    /\ engine' = [engine EXCEPT ![container].state = "running"]
    /\ calls' = Append(calls, Call("start", container, FALSE))
    /\ pc' = "container_logs"
    /\ UNCHANGED <<Run, built, sh, build_type, phaseNo, command, cwd, clients, scratch,
                   docker_path, dirsMade, buildStream, lineIdx, container,
                   logIdx, logsClosed, rv, build_rv, exc, result, printed,
                   errLines, mainResult>>

\* The timestamps argument of the engine's logs call: line 186 calls
\* container_logs(c, container), so the default of line 63 applies.
LogTimestamps(include_timestamps) == TRUE

\* Lines 186 and 65-66: the first advance of the generator calls the engine's
\* logs with stream=True.
OpenLogs ==
    /\ pc = "container_logs"
    /\ calls' = Append(calls, [Call("logs", container, FALSE) EXCEPT
                          !.timestamps = LogTimestamps(args.include_timestamps)])
    /\ pc' = "logs_loop"
    /\ UNCHANGED <<Run, built, sh, build_type, phaseNo, command, cwd, clients, scratch,
                   docker_path, dirsMade, buildStream, lineIdx, engine,
                   container, logIdx, logsClosed, rv, build_rv, exc, result,
                   printed, errLines, mainResult>>

\* Lines 186-188 and 65-67: one turn of the loop over the log stream.  The
\* stream ends, or gives a line that is stripped, decoded as UTF-8 and
\* written; a line that is not UTF-8 raises UnicodeDecodeError out of
\* docker_build.
LogsLoop ==
    /\ pc = "logs_loop"
    /\ \/ /\ logsClosed' = TRUE
          /\ pc' = "wait"
          /\ UNCHANGED <<logIdx, printed, exc, result>>
       \/ /\ logIdx < MaxLogLines
          /\ \E l \in LogLines :
                /\ logIdx' = logIdx + 1
                /\ IF Decodes(l)
                   THEN /\ printed' = Append(printed, l.text)
                        /\ pc' = "logs_loop"
                        /\ UNCHANGED <<exc, result>>
                   ELSE /\ exc' = [type |-> "UnicodeDecodeError",
                                   msg |-> l.text, detail |-> None,
                                   mentions |-> {}]
                        /\ result' = "UnicodeDecodeError"
                        /\ pc' = "return"
                        /\ printed' = printed
          /\ UNCHANGED logsClosed
    /\ UNCHANGED <<Run, built, sh, build_type, phaseNo, command, cwd, clients, scratch,
                   docker_path, dirsMade, buildStream, lineIdx, engine,
                   container, rv, build_rv, calls, errLines, mainResult>>

\* The environment: the process of a running container exits with a code.
ContainerExit ==
    /\ \E id \in DOMAIN engine, code \in ExitCodes :
          /\ engine[id].state = "running"
          /\ engine' = [engine EXCEPT ![id].state = "exited", ![id].code = code]
    /\ UNCHANGED <<Run, built, sh, build_type, phaseNo, pc, command, cwd, clients,
                   scratch, docker_path, dirsMade, buildStream, lineIdx,
                   container, logIdx, logsClosed, rv, build_rv, exc, result,
                   printed, calls, errLines, mainResult>>

\* Line 190 (wait_container, lines 57-60): blocks until the process has
\* exited and returns its exit code.
WaitContainer ==
    /\ pc = "wait"
    /\ engine[container].state = "exited"
    /\ rv' = engine[container].code
    /\ calls' = Append(calls, [Call("wait", container, FALSE) EXCEPT
                          !.ret = engine[container].code])
    /\ pc' = "decide"
    /\ UNCHANGED <<Run, built, sh, build_type, phaseNo, command, cwd, clients, scratch,
                   docker_path, dirsMade, buildStream, lineIdx, engine,
                   container, logIdx, logsClosed, build_rv, exc, result,
                   printed, errLines, mainResult>>

\* Lines 192-206: the cleanup decision.  remove_container (lines 70-72) is
\* called with force=True exactly when ShouldRemove.
Decide ==
    /\ pc = "decide"
    /\ printed' = Append(printed, DecisionLine(rv, args.force_rm))
    /\ IF ShouldRemove(rv, args.force_rm)
       THEN /\ engine' = [engine EXCEPT ![container].state = "removed"]
            /\ calls' = Append(calls, Call("remove_container", container, TRUE))
       ELSE UNCHANGED <<engine, calls>>
    /\ build_rv' = BuildRv(rv)
    /\ pc' = "outcome"
    /\ UNCHANGED <<Run, built, sh, build_type, phaseNo, command, cwd, clients, scratch,
                   docker_path, dirsMade, buildStream, lineIdx, container,
                   logIdx, logsClosed, rv, exc, result, errLines, mainResult>>

\* Lines 211-215: the message of the phase error, a literal.
FailureText(bt) ==
    IF bt = "source" THEN "Source build FAILED" ELSE "Binary build FAILED"

\* Mutant of FailureMentions: the message names the container that was
\* kept.
FailureMentionsKept(cid, state) == IF state = "removed" THEN {} ELSE { cid }

\* Lines 211-215: the containers the message of the phase error refers to:
\* the literal is not formatted with container.get('Id').
FailureMentions(cid, state) == {}

\* Lines 208-215: return True, or raise the error of the phase.
Outcome ==
    /\ pc = "outcome"
    /\ result' = PhaseOutcome(build_rv, build_type)
    /\ exc' = IF build_rv = "True" THEN exc
              ELSE [type |-> PhaseOutcome(build_rv, build_type),
                    msg |-> FailureText(build_type), detail |-> None,
                    mentions |-> FailureMentions(container, engine[container].state)]
    /\ pc' = "return"
    /\ UNCHANGED <<Run, built, sh, build_type, phaseNo, command, cwd, clients, scratch,
                   docker_path, dirsMade, buildStream, lineIdx, engine,
                   container, logIdx, logsClosed, rv, build_rv, printed,
                   calls, errLines, mainResult>>

(***************************************************************************)
(* main: lines 257-290.                                                    *)
(***************************************************************************)
\* The except clauses of lines 268 and 285 catch the instances of the class
\* they name; the classes of dbuild.exceptions are distinct errors, none a
\* subclass of the source or of the binary failure.
IsInstance(e, cls) == e = cls

\* A fresh activation of docker_build: its locals are unset.
Enter(bt) ==
    /\ build_type' = bt
    /\ phaseNo' = phaseNo + 1
    /\ pc' = "docker_build"
    /\ command' = << >>
    /\ cwd' = None
    /\ docker_path' = 0
    /\ buildStream' = << >>
    /\ lineIdx' = 0
    /\ container' = 0
    /\ logIdx' = 0
    /\ logsClosed' = FALSE
    /\ rv' = -1
    /\ build_rv' = "unset"
    /\ exc' = NoExc
    /\ result' = "none"
    /\ printed' = << >>

\* Lines 257-267: main calls docker_build for phase source.
MainSource ==
    /\ pc = "main"
    /\ Enter("source")
    /\ UNCHANGED <<Run, built, sh, clients, scratch, dirsMade, engine, calls, errLines,
                   mainResult>>

\* Mutant of MainBinary: the except clause of the source phase does not
\* return.
MainBinaryAfterFailure ==
    /\ pc = "return" /\ entry = "main" /\ build_type = "source"
    /\ result \in { "True", "DbuildSourceBuildFailedException" }
    /\ Enter("binary")
    /\ UNCHANGED <<Run, built, sh, clients, scratch, dirsMade, engine, calls, errLines,
                   mainResult>>

\* Lines 273-284: the source phase returned, main calls docker_build for
\* phase binary.
MainBinary ==
    /\ pc = "return" /\ entry = "main" /\ build_type = "source"
    /\ result = "True"
    /\ Enter("binary")
    /\ UNCHANGED <<Run, built, sh, clients, scratch, dirsMade, engine, calls, errLines,
                   mainResult>>

\* Lines 268-271: the source failure is caught, reported and main returns
\* False.
MainSourceFailed ==
    /\ pc = "return" /\ entry = "main" /\ build_type = "source"
    /\ result # "True"
    /\ IsInstance(result, "DbuildSourceBuildFailedException")
    /\ errLines' = Append(errLines, "ERROR | Source build failed for build directory")
    /\ mainResult' = "False"
    /\ pc' = "done"
    /\ UNCHANGED <<Run, built, sh, build_type, phaseNo, Locals, result, clients, scratch,
                   dirsMade, engine, calls>>

\* Lines 285-288: the binary failure is caught, reported and main returns
\* False.
MainBinaryFailed ==
    /\ pc = "return" /\ entry = "main" /\ build_type = "binary"
    /\ result # "True"
    /\ IsInstance(result, "DbuildBinaryBuildFailedException")
    /\ errLines' = Append(errLines, "ERROR | Binary build failed for build directory")
    /\ mainResult' = "False"
    /\ pc' = "done"
    /\ UNCHANGED <<Run, built, sh, build_type, phaseNo, Locals, result, clients, scratch,
                   dirsMade, engine, calls>>

\* Line 290: both phases returned.
MainReturn ==
    /\ pc = "return" /\ entry = "main" /\ build_type = "binary"
    /\ result = "True"
    /\ mainResult' = "True"
    /\ pc' = "done"
    /\ UNCHANGED <<Run, built, sh, build_type, phaseNo, Locals, result, clients, scratch,
                   dirsMade, engine, calls, errLines>>

\* An exception that no except clause of main names leaves main.
MainUncaught ==
    /\ pc = "return" /\ entry = "main"
    /\ result # "True"
    /\ \/ build_type = "source"
          /\ ~IsInstance(result, "DbuildSourceBuildFailedException")
       \/ build_type = "binary"
          /\ ~IsInstance(result, "DbuildBinaryBuildFailedException")
    /\ mainResult' = result
    /\ pc' = "done"
    /\ UNCHANGED <<Run, built, sh, build_type, phaseNo, Locals, result, clients, scratch,
                   dirsMade, engine, calls, errLines>>

\* A direct call of docker_build ends with its result.
DirectReturn ==
    /\ pc = "return" /\ entry = "docker_build"
    /\ pc' = "done"
    /\ UNCHANGED <<Run, built, sh, build_type, phaseNo, Locals, result, clients, scratch,
                   dirsMade, engine, calls, errLines, mainResult>>

Next ==
    \/ BuildCommand
    \/ OpenClient
    \/ Mkdtemp
    \/ CreateDockerfile
    \/ StartBuild
    \/ BuildLoop
    \/ Finally
    \/ CreateContainer
    \/ StartContainer
    \/ OpenLogs
    \/ LogsLoop
    \/ ContainerExit
    \/ WaitContainer
    \/ Decide
    \/ Outcome
    \/ MainSource
    \/ MainBinary
    \/ MainSourceFailed
    \/ MainBinaryFailed
    \/ MainReturn
    \/ MainUncaught
    \/ DirectReturn

Spec == Init /\ [][Next]_vars

(***************************************************************************)
(* Reading the history.                                                    *)
(***************************************************************************)
Ended == pc \in { "return", "done" }

PhaseFailure(bt) ==
    IF bt = "source" THEN "DbuildSourceBuildFailedException"
    ELSE "DbuildBinaryBuildFailedException"

\* The calls made by the docker_build call of phase bt.
PhaseCalls(bt) == SelectSeq(calls, LAMBDA c : c.phase = bt)

Ops(cs) == [ i \in DOMAIN cs |-> cs[i].op ]

IsPrefix(s, t) == Len(s) <= Len(t) /\ SubSeq(t, 1, Len(s)) = s

\* The current call has removed container cid with force=True.
RemovedForced(cid) ==
    \E i \in DOMAIN calls :
        /\ calls[i].op = "remove_container"
        /\ calls[i].cid = cid
        /\ calls[i].force

RemoveCalled(cid) ==
    \E i \in DOMAIN calls : calls[i].op = "remove_container" /\ calls[i].cid = cid

(***************************************************************************)
(* C1: in either phase and for either value of force_rm, when wait         *)
(* returned exit code 0 the call has removed its container with force=True *)
(* and ends returning True, raising nothing.                               *)
(***************************************************************************)
C1_SuccessRemovesAndReturnsTrue ==
    (Ended /\ rv = 0) =>
        /\ RemovedForced(container)
        /\ engine[container].state = "removed"
        /\ result = "True"
        /\ build_rv = "True"

C1_Witness ==
    /\ pc = "return" /\ rv = 0 /\ ~args.force_rm
    /\ entry = "main" /\ build_type = "binary"
    /\ RemovedForced(container)

(***************************************************************************)
(* C2: in either phase, when wait returned a non-zero exit code and        *)
(* force_rm is false, remove is never called on the container, which still *)
(* exists when the phase ends.                                             *)
(***************************************************************************)
C2_FailureKeepsContainer ==
    (rv > 0 /\ ~args.force_rm) =>
        /\ ~RemoveCalled(container)
        /\ engine[container].state = "exited"

C2_Witness ==
    /\ pc = "done" /\ rv > 0 /\ ~args.force_rm
    /\ build_type = "source"
    /\ engine[container].state = "exited"

(***************************************************************************)
(* C3: in either phase, when wait returned a non-zero exit code and        *)
(* force_rm is true, the container has been removed with force=True by the *)
(* time the phase failure is raised.                                       *)
(***************************************************************************)
C3_ForcedFailureRemoves ==
    (rv > 0 /\ args.force_rm /\ pc \in { "outcome", "return", "done" }) =>
        /\ RemovedForced(container)
        /\ engine[container].state = "removed"

C3_Witness ==
    /\ pc = "return" /\ rv > 0 /\ args.force_rm
    /\ result = PhaseFailure(build_type)
    /\ RemovedForced(container)

(***************************************************************************)
(* C4: whenever the container of a phase exited with a non-zero code, the  *)
(* call raises the error of its phase (the source failure for source, the  *)
(* binary failure for binary) whatever force_rm is, and returns no value.  *)
(***************************************************************************)
C4_NonZeroRaisesPhaseError ==
    (Ended /\ rv > 0) =>
        /\ result = PhaseFailure(build_type)
        /\ exc.type = PhaseFailure(build_type)
        /\ build_type = "source" => result = "DbuildSourceBuildFailedException"
        /\ build_type = "binary" => result = "DbuildBinaryBuildFailedException"

C4_Witness ==
    /\ pc = "return" /\ rv > 0 /\ args.force_rm
    /\ build_type = "binary"
    /\ result = "DbuildBinaryBuildFailedException"

(***************************************************************************)
(* C5: in a run of main, the binary phase is attempted only after a source *)
(* phase whose container exited with code 0; once the source phase has     *)
(* failed no engine work of phase binary follows, and a source build       *)
(* failure is reported by main as the source error line and a False        *)
(* result.                                                                 *)
(***************************************************************************)
SourceExitedZero ==
    \E i \in DOMAIN calls :
        calls[i].op = "wait" /\ calls[i].phase = "source" /\ calls[i].ret = 0

BinaryAttempted == build_type = "binary" \/ PhaseCalls("binary") # << >>

C5_NoBinaryAfterSourceFailure ==
    entry = "main" =>
        /\ BinaryAttempted => SourceExitedZero
        /\ (build_type = "source" /\ result \notin { "none", "True" }) =>
               /\ PhaseCalls("binary") = << >>
               /\ phaseNo = 1
        /\ (pc = "done" /\ result = "DbuildSourceBuildFailedException") =>
               /\ mainResult = "False"
               /\ errLines = << "ERROR | Source build failed for build directory" >>
               /\ ~BinaryAttempted

C5_Witness ==
    /\ entry = "main" /\ pc = "done"
    /\ result = "DbuildSourceBuildFailedException"
    /\ rv > 0
    /\ mainResult = "False"
    /\ PhaseCalls("binary") = << >>

(***************************************************************************)
(* C6: a build_type other than source and binary makes docker_build raise  *)
(* the unknown-build-type error before any engine work: no client is       *)
(* opened, no scratch directory made, no image built, no container         *)
(* created, started, waited on or removed.                                 *)
(***************************************************************************)
C6_UnknownTypeRaisesFirst ==
    (pc # "main" /\ build_type \notin { "source", "binary" }) =>
        /\ clients = 0
        /\ dirsMade = 0 /\ scratch = {}
        /\ calls = << >>
        /\ engine = << >> /\ container = 0
        /\ pc \in { "docker_build", "return", "done" }
        /\ Ended => /\ result = "DbuildBuildFailedException"
                    /\ exc.msg = "Unknown build_type"

C6_Witness ==
    /\ pc = "done" /\ build_type = "deb"
    /\ result = "DbuildBuildFailedException"
    /\ calls = << >>

(***************************************************************************)
(* C7: build_image yields the 'stream' texts of the engine's lines in      *)
(* order; at the first line that carries an error it raises the image      *)
(* build failure with that line's error and errorDetails and reads no      *)
(* further line; docker_build then creates, starts and removes no          *)
(* container.                                                              *)
(***************************************************************************)
ErrorAt(i) == "error" \in DOMAIN buildStream[i]

FirstErrorLine ==
    IF \E i \in DOMAIN buildStream : ErrorAt(i)
    THEN CHOOSE i \in DOMAIN buildStream :
             ErrorAt(i) /\ \A j \in 1 .. (i - 1) : ~ErrorAt(j)
    ELSE 0

\* The 'stream' texts of the first n lines of the build stream, in order.
StreamTexts(n) ==
    LET carrying == SelectSeq(SubSeq(buildStream, 1, n),
                              LAMBDA l : "stream" \in DOMAIN l)
    IN  [ i \in DOMAIN carrying |-> carrying[i].stream ]

ContainerOps == { "create_container", "start", "logs", "wait", "remove_container" }

NoContainerWork(bt) ==
    \A i \in DOMAIN calls : calls[i].phase = bt => calls[i].op \notin ContainerOps

C7_BuildStopsAtFirstError ==
    /\ (pc \in { "build_loop", "finally" }
          \/ exc.type = "DbuildDockerBuildFailedException") =>
           printed = << "Starting Package Build" >> \o StreamTexts(lineIdx)
    /\ FirstErrorLine # 0 =>
           /\ lineIdx <= FirstErrorLine
           /\ container = 0
           /\ NoContainerWork(build_type)
           /\ lineIdx = FirstErrorLine => exc.type = "DbuildDockerBuildFailedException"
    /\ exc.type = "DbuildDockerBuildFailedException" =>
           /\ FirstErrorLine # 0 /\ lineIdx = FirstErrorLine
           /\ exc.msg = buildStream[lineIdx].error
           /\ exc.detail = (IF "errorDetails" \in DOMAIN buildStream[lineIdx]
                            THEN buildStream[lineIdx].errorDetails ELSE None)
           /\ Ended => result = "DbuildDockerBuildFailedException"

C7_Witness ==
    /\ pc = "done"
    /\ result = "DbuildDockerBuildFailedException"
    /\ lineIdx = 1 /\ Len(buildStream) > 1
    /\ printed = << "Starting Package Build", "last" >>
    /\ exc.msg = "e3" /\ exc.detail = "d3"
    /\ engine = << >>

(***************************************************************************)
(* C8: the scratch directory made by a phase is removed on every way out   *)
(* of image provisioning (the build succeeded, the image build failed,     *)
(* create_dockerfile raised); once docker_build has ended no scratch       *)
(* directory it made exists.                                               *)
(***************************************************************************)
Provisioning == pc \in { "create_dockerfile", "build_image", "build_loop", "finally" }

C8_ScratchAlwaysRemoved ==
    /\ scratch \subseteq { docker_path }
    /\ ~Provisioning => scratch = {}
    /\ Provisioning => scratch = { docker_path }

C8_Witness ==
    /\ pc = "return" /\ exc.type = "OSError"
    /\ docker_path = 1 /\ dirsMade = 1
    /\ scratch = {}

(***************************************************************************)
(* C9: within a phase the calls happen in the order image build, create    *)
(* container, start, logs, wait, remove: the container is created only     *)
(* after the build stream was read to its end without error, start acts on *)
(* a created container, wait on a started one, remove only after wait      *)
(* returned.                                                               *)
(***************************************************************************)
PhaseOrder ==
    << "Client", "mkdtemp", "build", "rmtree", "create_container", "start",
       "logs", "wait", "remove_container" >>

InOrder(bt) ==
    LET cs == PhaseCalls(bt)
    IN  /\ \/ IsPrefix(Ops(cs), PhaseOrder)
           \/ Ops(cs) = << "Client", "mkdtemp", "rmtree" >>
        /\ \A i, j \in DOMAIN cs :
              (cs[i].op \in ContainerOps /\ cs[j].op \in ContainerOps)
                  => cs[i].cid = cs[j].cid

C9_PhaseOrder ==
    /\ InOrder("source") /\ InOrder("binary")
    /\ container # 0 =>
           /\ lineIdx = Len(buildStream)
           /\ FirstErrorLine = 0
           /\ scratch = {}
    /\ pc = "start_container" => engine[container].state = "created"
    /\ pc \in { "container_logs", "logs_loop", "wait" } =>
           engine[container].state \in { "running", "exited" }
    /\ pc = "decide" => engine[container].state = "exited" /\ rv = engine[container].code
    /\ \A id \in DOMAIN engine :
           engine[id].state = "removed" =>
               \E i, j \in DOMAIN calls :
                   /\ i < j
                   /\ calls[i].op = "wait" /\ calls[i].cid = id
                   /\ calls[j].op = "remove_container" /\ calls[j].cid = id

C9_Witness ==
    /\ pc = "done" /\ entry = "main"
    /\ Ops(PhaseCalls("source")) = PhaseOrder
    /\ Ops(PhaseCalls("binary")) = PhaseOrder
    /\ Len(buildStream) = 2

(***************************************************************************)
(* C10: the container's log output is printed in full before the decision  *)
(* is reported, and the decision is a function of the exit code returned   *)
(* by wait alone: whatever the log lines hold, a phase that started its    *)
(* container ends with wait's exit code deciding success and removal.      *)
(***************************************************************************)
C10_DecisionByExitCodeOnly ==
    (Ended /\ container # 0) =>
        /\ logsClosed
        /\ rv >= 0
        /\ result = (IF rv = 0 THEN "True" ELSE PhaseFailure(build_type))
        /\ (engine[container].state = "removed") <=> (rv = 0 \/ args.force_rm)

(***************************************************************************)
(* C11: a phase execution creates at most one container and builds its own *)
(* image; the binary phase creates a new container, distinct from the      *)
(* container of the source phase; every start, logs, wait and remove call  *)
(* of a phase acts on the container created in that phase.                 *)
(***************************************************************************)
CallsOf(bt, op) == SelectSeq(calls, LAMBDA c : c.phase = bt /\ c.op = op)

OwnContainer(bt) ==
    /\ Len(CallsOf(bt, "create_container")) <= 1
    /\ Len(CallsOf(bt, "build")) <= 1
    /\ \A i \in DOMAIN calls :
          (calls[i].phase = bt /\ calls[i].op \in ContainerOps) =>
              /\ CallsOf(bt, "create_container") # << >>
              /\ calls[i].cid = CallsOf(bt, "create_container")[1].cid
              /\ calls[i].cid \in DOMAIN engine
              /\ engine[calls[i].cid].phase = bt

C11_OneContainerPerPhase ==
    /\ OwnContainer("source") /\ OwnContainer("binary")
    /\ Len(engine) <= phaseNo
    /\ (CallsOf("source", "create_container") # << >>
          /\ CallsOf("binary", "create_container") # << >>) =>
           /\ CallsOf("source", "create_container")[1].cid
                 # CallsOf("binary", "create_container")[1].cid
           /\ Len(CallsOf("binary", "build")) = 1
    /\ container # 0 => engine[container].phase = build_type

C11_Witness ==
    /\ entry = "main" /\ pc = "done" /\ mainResult = "True"
    /\ Len(engine) = 2
    /\ CallsOf("source", "remove_container")[1].cid = 1
    /\ CallsOf("binary", "remove_container")[1].cid = 2

(***************************************************************************)
(* C12: a run of main in which a phase fails, by its image build or by a   *)
(* non-zero exit of its container, prints exactly one labeled error line   *)
(* and yields a failing status (main returns False); main yields success   *)
(* only when both phases succeeded.                                        *)
(***************************************************************************)
PhaseFailed ==
    result \in { "DbuildDockerBuildFailedException",
                 "DbuildSourceBuildFailedException",
                 "DbuildBinaryBuildFailedException" }

C12_OneLabeledLinePerFailure ==
    (entry = "main" /\ pc = "done") =>
        /\ PhaseFailed => (Len(errLines) = 1 /\ mainResult = "False")
        /\ mainResult = "True" =>
               (phaseNo = 2 /\ result = "True" /\ SourceExitedZero)

(***************************************************************************)
(* C13, as claimed: when a phase fails with a non-zero exit code and the    *)
(* container is kept, the message of the phase error refers to the kept    *)
(* container; when the container was removed the error carries no          *)
(* container.                                                              *)
(***************************************************************************)
InSeq(x, sq) == \E i \in DOMAIN sq : sq[i] = x

C13_MessageNamesKeptContainer ==
    (Ended /\ rv > 0) =>
        IF engine[container].state = "removed"
        THEN exc.mentions = {}
        ELSE container \in exc.mentions

(***************************************************************************)
(* C13, amended: the message of the phase error is the fixed text of its   *)
(* phase and refers to no container, whether the container was kept or     *)
(* removed; for a kept container the line 'Build failed ..., keeping       *)
(* container' has been printed before the error is raised.                 *)
(***************************************************************************)
C13_MessageIsFixedText ==
    (Ended /\ rv > 0) =>
        /\ exc.type = PhaseFailure(build_type)
        /\ exc.mentions = {}
        /\ exc.msg = (IF build_type = "source" THEN "Source build FAILED"
                      ELSE "Binary build FAILED")
        /\ exc.detail = None
        /\ engine[container].state # "removed" =>
               InSeq("Build failed, keeping container", printed)

C13_Witness ==
    /\ pc = "return" /\ rv > 0 /\ ~args.force_rm
    /\ engine[container].state = "exited"
    /\ exc.type = "DbuildBinaryBuildFailedException"
    /\ exc.mentions = {}
    /\ InSeq("Build failed, keeping container", printed)

(***************************************************************************)
(* The command builder on its own.  The steps of docker_build after line   *)
(* 157 neither read nor write the inputs of the builder, so CmdSpec        *)
(* follows docker_build up to the built command: a caller calls            *)
(* docker_build again with the same arguments (as tests.py does), and the  *)
(* content of the build directory may change between two calls.            *)
(***************************************************************************)
Last(sq) == sq[Len(sq)]

\* The environment: files appear in or vanish from build_dir between two
\* calls (os.path.exists of lines 133 and 137 reads the directory anew).
FsChange ==
    /\ pc = "docker_build" /\ built # << >>
    /\ \E f \in [ repos : BOOLEAN, keys : BOOLEAN ] : f # fs /\ fs' = f
    /\ UNCHANGED <<entry, args, build_type, phaseNo, pc, Locals, result,
                   clients, scratch, dirsMade, engine, calls, errLines,
                   built, sh, mainResult>>

\* docker_build is called again with the same arguments and build_type.
CallAgain ==
    /\ entry = "docker_build" /\ pc = "client"
    /\ Len(built) < MaxCalls
    /\ Enter(build_type)
    /\ UNCHANGED <<Run, built, sh, clients, scratch, dirsMade, engine, calls,
                   errLines, mainResult>>

CmdNext == MainSource \/ BuildCommand \/ FsChange \/ CallAgain

CmdSpec == Init /\ [][CmdNext]_vars

(***************************************************************************)
(* The built command run by bash -c (line 175).  A command that is reached *)
(* runs and succeeds or fails; 'a && b' runs b only after a status of 0,   *)
(* 'a ; b' runs b in any case; 'rv=$?' saves the status, 'exit $rv' ends   *)
(* the shell with the saved value; without an exit the status of the last  *)
(* command run is the exit code.                                           *)
(***************************************************************************)
RECURSIVE Exec(_, _, _, _, _, _)
Exec(cmd, i, status, saved, executed, fails) ==
    IF i > Len(cmd) THEN [code |-> status, executed |-> executed]
    ELSE IF cmd[i] \in { And, Semi }
         THEN Exec(cmd, i + 1, status, saved, executed, fails)
    ELSE IF ~(i = 1 \/ cmd[i - 1] = Semi \/ status = 0)
         THEN Exec(cmd, i + 1, status, saved, executed, fails)
    ELSE IF cmd[i].seg = "rv=$?"
         THEN Exec(cmd, i + 1, 0, status, executed \cup { i }, fails)
    ELSE IF cmd[i].seg = "exit $rv"
         THEN [code |-> saved, executed |-> executed \cup { i }]
    ELSE Exec(cmd, i + 1, IF i \in fails THEN 1 ELSE 0, saved,
              executed \cup { i }, fails)

\* The positions of the commands that can fail.
Fallible(cmd) ==
    { i \in DOMAIN cmd :
        /\ cmd[i] \notin { And, Semi }
        /\ cmd[i].seg \notin { "export DEBIAN_FRONTEND=noninteractive",
                               "rv=$?", "exit $rv" } }

\* The container runs the command: the commands of fails fail when run.
ShellRun ==
    /\ pc = "client" /\ ~sh.ran
    /\ \E fails \in SUBSET Fallible(command) :
          /\ Cardinality(fails) <= MaxFailures
          /\ LET r == Exec(command, 1, 0, 0, {}, fails)
             IN  sh' = [ran |-> TRUE, fails |-> fails, code |-> r.code,
                        executed |-> r.executed]
    /\ UNCHANGED <<Run, build_type, phaseNo, pc, Locals, result, clients,
                   scratch, dirsMade, engine, calls, errLines, built,
                   mainResult>>

ShellNext == MainSource \/ BuildCommand \/ ShellRun

ShellSpec == Init /\ [][ShellNext]_vars

(***************************************************************************)
(* C14: for every combination of no_default_sources, extra-repos file      *)
(* present or absent, extra-keys file present or absent, and phase, the    *)
(* command is, in this order: the truncation of the source list (only if   *)
(* no_default_sources), the copy of the extra-repos file (only if it       *)
(* exists), the key import (only if the keys file exists), the             *)
(* non-interactive update and upgrade (always), the build step of the      *)
(* phase; an optional segment is absent exactly when its condition is      *)
(* false.                                                                  *)
(***************************************************************************)
\* The commands of a command text, without the connectives.
Names(cmd) ==
    LET cs == SelectSeq(cmd, LAMBDA t : t \notin { And, Semi })
    IN  [ i \in DOMAIN cs |-> cs[i].seg ]

Position(x, sq) ==
    IF InSeq(x, sq) THEN CHOOSE i \in DOMAIN sq : sq[i] = x ELSE 0

ExpectedSegments(bt, nds, repos, keys) ==
    (IF nds THEN << "> /etc/apt/sources.list" >> ELSE << >>)
    \o (IF repos THEN << "cp repos sources.list.d" >> ELSE << >>)
    \o (IF keys THEN << "apt-key add" >> ELSE << >>)
    \o << "export DEBIAN_FRONTEND=noninteractive", "apt-get -y update",
          "apt-get -y dist-upgrade" >>
    \o (IF bt = "source" THEN << "dpkg-buildpackage -S" >>
        ELSE << "dpkg-source -x", "cd pkgbuild", "pbuilder-satisfydepends",
                "dpkg-buildpackage -b -j" >>)

C14_SegmentOrder ==
    pc = "client" =>
        LET names == Names(command)
            seen == Last(built).fs
            expected == ExpectedSegments(build_type, args.no_default_sources,
                                         seen.repos, seen.keys)
        IN  /\ IsPrefix(expected, names)
            /\ Len(names) - Len(expected) \in { 0, 3 }
            /\ InSeq("> /etc/apt/sources.list", names) <=> args.no_default_sources
            /\ InSeq("cp repos sources.list.d", names) <=> seen.repos
            /\ InSeq("apt-key add", names) <=> seen.keys
            /\ args.no_default_sources => Position("> /etc/apt/sources.list", names) = 1
            /\ cwd = (IF build_type = "source" THEN "/build/source" ELSE "/build")

C14_Witness ==
    /\ pc = "client" /\ build_type = "binary"
    /\ args.no_default_sources /\ fs.repos /\ ~fs.keys
    /\ Position("> /etc/apt/sources.list", Names(command)) = 1
    /\ Position("cp repos sources.list.d", Names(command)) = 2
    /\ Position("apt-get -y update", Names(command)) = 4
    /\ Position("dpkg-source -x", Names(command)) = 6

(***************************************************************************)
(* C15: for every build_owner that is set (any uid, as opposed to None)    *)
(* and for both phases, the command ends with the suffix that saves the    *)
(* exit code, chowns to that owner and exits with the saved code, after    *)
(* the build step of the phase; with build_owner unset the suffix is       *)
(* absent.                                                                 *)
(***************************************************************************)
EndsWithSuffix(cmd, uid) ==
    /\ Len(cmd) >= 7
    /\ SubSeq(cmd, Len(cmd) - 5, Len(cmd)) =
           << Semi, Seg("rv=$?", 0), Semi, Seg("chown -R", uid), Semi,
              Seg("exit $rv", 0) >>
    /\ cmd[Len(cmd) - 6].seg \in { "dpkg-buildpackage -S", "dpkg-buildpackage -b -j" }

C15_OwnerSuffixWhenSet ==
    pc = "client" =>
        /\ \A uid \in args.build_owner : EndsWithSuffix(command, uid)
        /\ args.build_owner = {} => ~InSeq("chown -R", Names(command))

(***************************************************************************)
(* C16: when the owner suffix is present, running the command runs the     *)
(* chown step whether the steps before it succeeded or stopped at a        *)
(* failing one, and the exit code of the container is 0 exactly when every *)
(* step before the suffix succeeded, whatever the chown step itself        *)
(* returns.                                                                *)
(***************************************************************************)
ChownAt(cmd) == CHOOSE i \in DOMAIN cmd : cmd[i].seg = "chown -R"

\* The steps before the suffix: the fallible commands other than chown.
ChainSteps(cmd) == Fallible(cmd) \ { ChownAt(cmd) }

C16_ExitCodeOfChain ==
    (sh.ran /\ InSeq("chown -R", Names(command))) =>
        /\ ChownAt(command) \in sh.executed
        /\ sh.code = 0 <=> (ChainSteps(command) \cap sh.fails = {})

(***************************************************************************)
(* C17, as claimed: two executions of docker_build with the same request   *)
(* and the same phase produce the same command text and working            *)
(* directory, also when the extra-repos and extra-keys files are present   *)
(* at one execution and absent at the other.                               *)
(***************************************************************************)
C17_SameCommandWhateverTheFiles ==
    \A i, j \in DOMAIN built :
        built[i].phase = built[j].phase =>
            /\ built[i].command = built[j].command
            /\ built[i].cwd = built[j].cwd

(***************************************************************************)
(* C17, amended: two executions with the same request and the same phase   *)
(* produce the same working directory, and the same command text when the  *)
(* extra-repos and extra-keys files are present or absent alike at both;   *)
(* when their presence differs the command texts differ.                   *)
(***************************************************************************)
C17_SameCommandForSameFiles ==
    \A i, j \in DOMAIN built :
        built[i].phase = built[j].phase =>
            /\ built[i].cwd = built[j].cwd
            /\ built[i].fs = built[j].fs => built[i].command = built[j].command
            /\ built[i].fs # built[j].fs => built[i].command # built[j].command

C17_Witness ==
    /\ Len(built) = 2 /\ pc = "client"
    /\ built[1].fs = built[2].fs /\ built[1].fs.repos
    /\ built[1].command = built[2].command
    /\ command = built[1].command

(***************************************************************************)
(* C18: a run of main executes at most two phases, source then binary,     *)
(* each at most once; when the source phase succeeds the binary phase is   *)
(* executed exactly once after it, with the same arguments plus the        *)
(* parallelism parameter, and the source phase is never executed after the *)
(* binary phase.                                                           *)
(***************************************************************************)
Phases == [ i \in DOMAIN built |-> built[i].phase ]

C19_TimestampsHonoured ==
    \A i \in DOMAIN calls :
        calls[i].op = "logs" => (calls[i].timestamps <=> args.include_timestamps)

(***************************************************************************)
(* The program and the container's process under fairness: a step that can *)
(* be taken is eventually taken.  The image-build stream and the log       *)
(* stream are finite (MaxBuildLines, MaxLogLines), and a running process   *)
(* eventually exits, since ContainerExit is the only step enabled while    *)
(* docker_build is blocked in wait.                                        *)
(***************************************************************************)
FairSpec == Spec /\ WF_vars(Next)

\* The phase has made its cleanup decision and ended in success or in its
\* phase failure.
Decided ==
    /\ pc = "return"
    /\ build_rv # "unset"
    /\ result \in { "True", PhaseFailure(build_type) }

(***************************************************************************)
(* C20: with a finite image-build stream, a log stream that closes and a   *)
(* process that exits, every phase that has started its container          *)
(* eventually reaches the cleanup decision and ends in success or in a     *)
(* phase failure; and as long as the process has not exited, wait has not  *)
(* returned: no decision is reported and the container is not removed.     *)
(***************************************************************************)
C20_EventuallyDecides ==
    /\ (pc = "container_logs") ~> Decided
    /\ [](\A id \in DOMAIN engine :
             engine[id].state = "running" =>
                 /\ ~RemoveCalled(id)
                 /\ (id = container => pc \notin { "decide", "outcome" }))

(***************************************************************************)
(* C21: after a complete run of main in which every engine call succeeds,  *)
(* at most one container created by the run still exists, and it is the    *)
(* container of the one failing phase with force_rm false; with force_rm   *)
(* true, or when both phases succeed, no container of the run remains.     *)
(***************************************************************************)
\* The containers the run created and did not remove.
Remaining == { id \in DOMAIN engine : engine[id].state # "removed" }

C21_AtMostFailingContainerRemains ==
    (entry = "main" /\ pc = "done") =>
        /\ Cardinality(Remaining) <= 1
        /\ (args.force_rm \/ mainResult = "True") => Remaining = {}
        /\ \A id \in Remaining :
              /\ ~args.force_rm
              /\ id = container
              /\ engine[id].phase = build_type
              /\ result = PhaseFailure(build_type)

====
